---- MODULE Spec2Model ----
(***************************************************************************)
(* A model of chen_num_cpus: the public queries get() and get_physical()   *)
(* (src/src/lib.rs), the Linux control-group path behind get()             *)
(* (src/src/linux.rs: Subsys::parse_line, Subsys::load_cpu, load_cgroups,  *)
(* init_cgroups, the Once guard of cgroups_num_cpus) and the Windows       *)
(* two-pass physical-core query (src/src/lib.rs).                          *)
(*                                                                         *)
(* Text is a sequence of one-character strings.  Option<T> is a sequence   *)
(* of length at most one: None is <<>>, Some(x) is <<x>>.                  *)
(*                                                                         *)
(* Four specifications share the variables:                                *)
(*   SpecParse  parse_line applied to every bounded line                   *)
(*   SpecLoad   one call of Subsys::load_cpu on a membership file the      *)
(*              environment may rewrite while the call runs                *)
(*   Spec       threads calling get() / get_physical() on Linux            *)
(*   SpecWin    get_physical() on Windows                                  *)
(***************************************************************************)
EXTENDS Integers, Sequences, FiniteSets

VARIABLES
    line,          \* SpecParse: the String handed to parse_line
    parsed,        \* SpecParse: the Option<Subsys> it returned
    ppc,           \* SpecParse: "input" | "parsed"
    file,          \* the membership file's lines: each <<text>> (Ok) or <<>> (Err)
    exists,        \* whether the membership file can be opened
    lpc,           \* SpecLoad: position of the load_cpu call
    seen,          \* SpecLoad: the lines the folding pass read
    subsys,        \* SpecLoad: the Option<Subsys> load_cpu returned
    pc,            \* Spec: each thread's position
    ret,           \* Spec: the value each thread's last finished call returned
    once,          \* Spec: state of the static ONCE
    CGROUPS_CPUS,  \* Spec: the static AtomicUsize
    initStarted,   \* Spec: how many times init_cgroups was entered
    initFinished,  \* Spec: how many times init_cgroups ran to its end
    initializer,   \* Spec: the thread that entered init_cgroups (0: none yet)
    miri,          \* Spec: cfg!(miri) of the build
    hw,            \* Spec: logical processors of the host
    quota,         \* Spec: the control group's CPU quota (-1: unlimited)
    period,        \* Spec: the control group's CPU period
    wpc,           \* SpecWin: position of the get_physical() call
    needed_size,   \* SpecWin: the u32 the API calls write
    nprocs,        \* SpecWin: dwNumberOfProcessors
    struct_size,   \* SpecWin: size_of::<SYSTEM_LOGICAL_PROCESSOR_INFORMATION>()
    reported,      \* SpecWin: the size the size-discovery call reported
    fetch_ok,      \* SpecWin: whether the fetch call succeeded
    buf,           \* SpecWin: relationship tags of the fetched records
    wres           \* SpecWin: the value get_physical() returned

parseVars == <<line, parsed, ppc>>
fileVars  == <<file, exists>>
loadVars  == <<lpc, seen, subsys>>
getVars   == <<pc, ret, once, CGROUPS_CPUS, initStarted, initFinished,
               initializer, miri, hw, quota, period>>
winVars   == <<wpc, needed_size, struct_size, nprocs, reported, fetch_ok, buf, wres>>
vars      == <<parseVars, fileVars, loadVars, getVars, winVars>>

(***************************************************************************)
(* Bounds                                                                  *)
(***************************************************************************)
MaxLineLen == 6
MaxLines == 3
MaxGetLines == 1
NumThreads == 2
MaxCpus == 2
MaxRecords == 2

(***************************************************************************)
(* Option and text helpers                                                 *)
(***************************************************************************)
None == <<>>
Some(x) == <<x>>
is_some(o) == o # <<>>

Alphabet == {":", ",", "c", "p", "u", "/"}
BoundedLines == UNION {[1..n -> Alphabet] : n \in 0..MaxLineLen}

cpu == <<"c", "p", "u">>

\* str::split(sep): the fields between separators, always at least one.
RECURSIVE split(_, _)
split(s, sep) ==
    IF \A i \in DOMAIN s : s[i] # sep
    THEN <<s>>
    ELSE LET i == CHOOSE k \in DOMAIN s :
                      s[k] = sep /\ \A j \in 1..(k - 1) : s[j] # sep
         IN <<SubSeq(s, 1, i - 1)>> \o split(SubSeq(s, i + 1, Len(s)), sep)

\* Iterator::nth(n) on a fresh iterator: the element at 0-based index n.
nth(fields, n) == IF Len(fields) > n THEN Some(fields[n + 1]) ELSE None

Subsys(version, base) == [version |-> version, base |-> base]

\* A parse_line that accepts any controller list mentioning cpu somewhere.
parse_line_substring(l) ==
    LET fields == split(l, ":")
        first == nth(fields, 1)
    IN IF first = None THEN None
       ELSE LET sub_systems == first[1]
                version == IF sub_systems = <<>> THEN "V2" ELSE "V1"
            IN IF version = "V1" /\
                  ~ \E i \in 1..(Len(sub_systems) - 2) :
                        SubSeq(sub_systems, i, i + 2) = cpu
               THEN None
               ELSE IF Len(fields) > 2
                    THEN Some(Subsys(version, fields[3]))
                    ELSE None

\* Subsys::parse_line
parse_line(l) ==
    LET fields == split(l, ":")
        first == nth(fields, 1)
    IN IF first = None THEN None
       ELSE LET sub_systems == first[1]
                version == IF sub_systems = <<>> THEN "V2" ELSE "V1"
                subs == split(sub_systems, ",")
            IN IF version = "V1" /\ ~ \E i \in DOMAIN subs : subs[i] = cpu
               THEN None
               ELSE IF Len(fields) > 2
                    THEN Some(Subsys(version, fields[3]))
                    ELSE None

(***************************************************************************)
(* SpecParse: parse_line on every line of at most MaxLineLen characters   *)
(* over Alphabet, and on the three lines of the source's documentation.    *)
(***************************************************************************)
Ex_cpu_cpuacct ==
    <<"1", "1", ":", "c", "p", "u", ",", "c", "p", "u", "a", "c", "c", "t", ":", "/">>
Ex_user_slice ==
    <<"0", ":", ":", "/", "u", "s", "e", "r", ".", "s", "l", "i", "c", "e">>
Ex_memory == <<"4", ":", "m", "e", "m", "o", "r", "y", ":", "/">>
ExampleLines == {Ex_cpu_cpuacct, Ex_user_slice, Ex_memory}

IdleGet ==
    /\ pc = [t \in 1..NumThreads |-> "idle"]
    /\ ret = [t \in 1..NumThreads |-> [fn |-> "none", val |-> 0]]
    /\ once = "INCOMPLETE"
    /\ CGROUPS_CPUS = 0
    /\ initStarted = 0
    /\ initFinished = 0
    /\ initializer = 0
    /\ miri = FALSE
    /\ hw = 1
    /\ quota = -1
    /\ period = 1
IdleParse == line = <<>> /\ parsed = None /\ ppc = "input"
IdleFile == file = <<>> /\ exists = FALSE
IdleLoad == lpc = "start" /\ seen = <<>> /\ subsys = None
IdleWin ==
    /\ wpc = "start"
    /\ needed_size = 0
    /\ struct_size = 0
    /\ nprocs = 1
    /\ reported = 0
    /\ fetch_ok = FALSE
    /\ buf = <<>>
    /\ wres = 0

InitParse ==
    /\ line \in BoundedLines \cup ExampleLines
    /\ parsed = None
    /\ ppc = "input"
    /\ IdleFile /\ IdleLoad /\ IdleGet /\ IdleWin

ParseLine ==
    /\ ppc = "input"
    /\ parsed' = parse_line(line)
    /\ ppc' = "parsed"
    /\ UNCHANGED <<line, fileVars, loadVars, getVars, winVars>>

NextParse == ParseLine
SpecParse == InitParse /\ [][NextParse]_vars

(***************************************************************************)
(* The membership file.  A line read through BufReader::lines() is a       *)
(* Result<String>: Ok(text) is <<text>>, Err is <<>>.                      *)
(***************************************************************************)
Ok(text) == <<text>>
Err == <<>>
\* Result::ok
ok(result) == IF result = Err THEN None ELSE Some(result[1])

LineV2u == <<"0", ":", ":", "/", "u">>
LineV2w == <<"0", ":", ":", "/", "w">>
LineV1 == <<"1", ":", "c", "p", "u", ":", "/">>
LineV1a == <<"2", ":", "c", "p", "u", ",", "c", "p", "u", "a", "c", "c", "t", ":", "/", "a">>
LineMem == <<"4", ":", "m", "e", "m", "o", "r", "y", ":", "/">>
FileLines == {LineV2u, LineV2w, LineV1, LineV1a, LineMem}
FileEntries == {Ok(l) : l \in FileLines} \cup {Err}
Files(n) == UNION {[1..k -> FileEntries] : k \in 0..n}

\* File::open(..).unwrap_or_else(|_| panic!(..)): TRUE when the open panics.
open_panics(e) == ~e

\* for line in buf_reader.lines() { println!("- {}", line.unwrap()) }:
\* TRUE when some unwrap panics.
print_lines_panics(f) == \E i \in DOMAIN f : f[i] = Err

\* A fold step in which the record already found always wins.
fold_step_first_wins(previous, l) ==
    IF is_some(previous) THEN previous ELSE Some(l)

\* A fold step without the V2 test: the latest record always wins.
fold_step_last_wins(previous, l) == Some(l)

\* The closure handed to fold (linux.rs:67-74).
fold_step(previous, l) ==
    IF is_some(previous) /\ l.version = "V2" THEN previous ELSE Some(l)

RECURSIVE fold(_, _)
fold(previous, s) ==
    IF s = <<>> THEN previous ELSE fold(fold_step(previous, Head(s)), Tail(s))

\* .filter_map(|result| result.ok()).filter_map(Subsys::parse_line)
RECURSIVE filter_map_parse(_)
filter_map_parse(f) ==
    IF f = <<>> THEN <<>>
    ELSE LET text == ok(Head(f))
             rec == IF is_some(text) THEN parse_line(text[1]) ELSE None
         IN (IF is_some(rec) THEN <<rec[1]>> ELSE <<>>) \o filter_map_parse(Tail(f))

\* The second pass of load_cpu over the lines it reads.
load_cpu_fold(f) == fold(None, filter_map_parse(f))

\* The environment's edits of the membership file, at most n lines long.
AppendLine(n) ==
    /\ Len(file) < n
    /\ \E e \in FileEntries : file' = Append(file, e)
    /\ UNCHANGED exists
TruncateFile ==
    /\ file # <<>>
    /\ file' = SubSeq(file, 1, Len(file) - 1)
    /\ UNCHANGED exists
RemoveFile == exists /\ exists' = FALSE /\ UNCHANGED file
CreateFile == ~exists /\ exists' = TRUE /\ UNCHANGED file

(***************************************************************************)
(* SpecLoad: one call Subsys::load_cpu(proc_path).                         *)
(***************************************************************************)
InitLoad ==
    /\ file \in Files(MaxLines)
    /\ exists \in BOOLEAN
    /\ IdleLoad
    /\ IdleParse /\ IdleGet /\ IdleWin

LoadRunning == lpc \in {"start", "print", "reopen", "fold"}

\* linux.rs:53
LoadOpenFirst ==
    /\ lpc = "start"
    /\ lpc' = IF open_panics(exists) THEN "panicked" ELSE "print"
    /\ UNCHANGED <<seen, subsys, parseVars, fileVars, getVars, winVars>>

\* linux.rs:54-59
LoadPrintLines ==
    /\ lpc = "print"
    /\ lpc' = IF print_lines_panics(file) THEN "panicked" ELSE "reopen"
    /\ UNCHANGED <<seen, subsys, parseVars, fileVars, getVars, winVars>>

\* linux.rs:61
LoadOpenSecond ==
    /\ lpc = "reopen"
    /\ lpc' = IF open_panics(exists) THEN "panicked" ELSE "fold"
    /\ UNCHANGED <<seen, subsys, parseVars, fileVars, getVars, winVars>>

\* linux.rs:62-74
LoadFold ==
    /\ lpc = "fold"
    /\ seen' = file
    /\ subsys' = load_cpu_fold(file)
    /\ lpc' = "done"
    /\ UNCHANGED <<parseVars, fileVars, getVars, winVars>>

LoadEnvAppend ==
    LoadRunning /\ AppendLine(MaxLines) /\ UNCHANGED <<parseVars, loadVars, getVars, winVars>>
LoadEnvTruncate ==
    LoadRunning /\ TruncateFile /\ UNCHANGED <<parseVars, loadVars, getVars, winVars>>
LoadEnvRemove ==
    LoadRunning /\ RemoveFile /\ UNCHANGED <<parseVars, loadVars, getVars, winVars>>
LoadEnvCreate ==
    LoadRunning /\ CreateFile /\ UNCHANGED <<parseVars, loadVars, getVars, winVars>>

NextLoad ==
    \/ LoadOpenFirst
    \/ LoadPrintLines
    \/ LoadOpenSecond
    \/ LoadFold
    \/ LoadEnvAppend
    \/ LoadEnvTruncate
    \/ LoadEnvRemove
    \/ LoadEnvCreate
SpecLoad == InitLoad /\ [][NextLoad]_vars

(***************************************************************************)
(* Spec: threads of one Linux process calling get() and get_physical().    *)
(* A finished call (returned or panicked and caught) may be followed by    *)
(* another call of the same thread.                                        *)
(***************************************************************************)
Threads == 1..NumThreads
Quotas == {-1, 150000}
Periods == {100000}
NoRet == [fn |-> "none", val |-> 0]

\* Option::unwrap_or_else
unwrap_or_else(o, default) == IF is_some(o) THEN o[1] ELSE default

\* linux.rs:105-107
logical_cpus == 0

\* linux.rs:146-152: whatever load_cpu selected, the result is None.
load_cgroups(selected) == None

\* linux.rs:109-116: the value cgroups_num_cpus returns once call_once is over.
cgroups_num_cpus == None

\* linux.rs:101-103
get_num_cpus == unwrap_or_else(cgroups_num_cpus, logical_cpus)

\* lib.rs:24-26
get == get_num_cpus

\* linux.rs:154-156
get_num_physical_cpus == 0

\* lib.rs:89-91
get_physical == get_num_physical_cpus

\* A guard that lets a second caller in while the initializer is running.
OnceMayRun_NoExclusion(state) == state \in {"INCOMPLETE", "RUNNING"}

\* Once::call_once runs the closure only from the INCOMPLETE state.
OnceMayRun(state) == state = "INCOMPLETE"

\* A guard that a panic of the closure resets instead of poisoning.
OnceAfterPanic_Reset == "INCOMPLETE"

\* Once::call_once: the state a panic of the closure leaves behind.
OnceAfterPanic == "POISONED"

InitGet ==
    /\ pc = [t \in Threads |-> "idle"]
    /\ ret = [t \in Threads |-> NoRet]
    /\ once = "INCOMPLETE"
    /\ CGROUPS_CPUS = 0
    /\ initStarted = 0
    /\ initFinished = 0
    /\ initializer = 0
    /\ miri \in BOOLEAN
    /\ hw \in 1..MaxCpus
    /\ quota \in Quotas
    /\ period \in Periods
    /\ file \in Files(MaxGetLines)
    /\ exists \in BOOLEAN
    /\ IdleParse /\ IdleLoad /\ IdleWin

NotCalling(t) == pc[t] \in {"idle", "returned", "panicked"}

\* get() -> get_num_cpus() -> cgroups_num_cpus(), up to ONCE.call_once.
CallGet(t) ==
    /\ NotCalling(t)
    /\ pc' = [pc EXCEPT ![t] = "call_once"]
    /\ ret' = [ret EXCEPT ![t] = NoRet]
    /\ UNCHANGED <<once, CGROUPS_CPUS, initStarted, initFinished, initializer,
                   miri, hw, quota, period, parseVars, fileVars, loadVars, winVars>>

\* call_once finds the guard free and enters init_cgroups (linux.rs:112, 122).
OnceRun(t) ==
    /\ pc[t] = "call_once"
    /\ OnceMayRun(once)
    /\ once' = "RUNNING"
    /\ initStarted' = initStarted + 1
    /\ initializer' = t
    /\ pc' = [pc EXCEPT ![t] = "init"]
    /\ UNCHANGED <<ret, CGROUPS_CPUS, initFinished, miri, hw, quota, period,
                   parseVars, fileVars, loadVars, winVars>>

\* init_cgroups returns, call_once completes, and the caller's get() returns.
FinishInit(t) ==
    /\ once' = "COMPLETE"
    /\ initFinished' = initFinished + 1
    /\ pc' = [pc EXCEPT ![t] = "returned"]
    /\ ret' = [ret EXCEPT ![t] = [fn |-> "get", val |-> get]]
    /\ UNCHANGED <<CGROUPS_CPUS, initStarted, initializer, miri, hw, quota, period,
                   parseVars, fileVars, loadVars, winVars>>

\* The closure panics: the guard is left as call_once leaves it, the caller unwinds.
PanicInit(t) ==
    /\ once' = OnceAfterPanic
    /\ pc' = [pc EXCEPT ![t] = "panicked"]
    /\ UNCHANGED <<ret, CGROUPS_CPUS, initStarted, initFinished, initializer,
                   miri, hw, quota, period, parseVars, fileVars, loadVars, winVars>>

StepInit(t, next) ==
    /\ pc' = [pc EXCEPT ![t] = next]
    /\ UNCHANGED <<ret, once, CGROUPS_CPUS, initStarted, initFinished, initializer,
                   miri, hw, quota, period, parseVars, fileVars, loadVars, winVars>>

\* linux.rs:128-130: under miri init_cgroups is a no-op.
InitMiri(t) ==
    /\ pc[t] = "init"
    /\ miri
    /\ FinishInit(t)

\* linux.rs:143 -> 148 -> 53: the first open of the membership file.
InitOpenFirst(t) ==
    /\ pc[t] = "init"
    /\ ~miri
    /\ IF open_panics(exists) THEN PanicInit(t) ELSE StepInit(t, "print")

\* linux.rs:54-59
InitPrintLines(t) ==
    /\ pc[t] = "print"
    /\ IF print_lines_panics(file) THEN PanicInit(t) ELSE StepInit(t, "reopen")

\* linux.rs:61
InitOpenSecond(t) ==
    /\ pc[t] = "reopen"
    /\ IF open_panics(exists) THEN PanicInit(t) ELSE StepInit(t, "fold")

\* linux.rs:62-74, then 148-151 and 143: load_cpu returns, load_cgroups
\* returns None, init_cgroups stores nothing and returns.
InitFold(t) ==
    /\ pc[t] = "fold"
    /\ load_cgroups(load_cpu_fold(file)) = None
    /\ FinishInit(t)

\* call_once finds the guard complete: cgroups_num_cpus returns, get() returns.
OnceDone(t) ==
    /\ pc[t] = "call_once"
    /\ once = "COMPLETE"
    /\ pc' = [pc EXCEPT ![t] = "returned"]
    /\ ret' = [ret EXCEPT ![t] = [fn |-> "get", val |-> get]]
    /\ UNCHANGED <<once, CGROUPS_CPUS, initStarted, initFinished, initializer,
                   miri, hw, quota, period, parseVars, fileVars, loadVars, winVars>>

\* call_once finds the guard poisoned and panics.
OncePoisoned(t) ==
    /\ pc[t] = "call_once"
    /\ once = "POISONED"
    /\ pc' = [pc EXCEPT ![t] = "panicked"]
    /\ UNCHANGED <<ret, once, CGROUPS_CPUS, initStarted, initFinished, initializer,
                   miri, hw, quota, period, parseVars, fileVars, loadVars, winVars>>

\* get_physical() -> get_num_physical_cpus()
CallGetPhysical(t) ==
    /\ NotCalling(t)
    /\ pc' = [pc EXCEPT ![t] = "returned"]
    /\ ret' = [ret EXCEPT ![t] = [fn |-> "get_physical", val |-> get_physical]]
    /\ UNCHANGED <<once, CGROUPS_CPUS, initStarted, initFinished, initializer,
                   miri, hw, quota, period, parseVars, fileVars, loadVars, winVars>>

EnvAppend == AppendLine(MaxGetLines) /\ UNCHANGED <<parseVars, loadVars, getVars, winVars>>
EnvTruncate == TruncateFile /\ UNCHANGED <<parseVars, loadVars, getVars, winVars>>
EnvRemove == RemoveFile /\ UNCHANGED <<parseVars, loadVars, getVars, winVars>>
EnvCreate == CreateFile /\ UNCHANGED <<parseVars, loadVars, getVars, winVars>>

Next ==
    \/ \E t \in Threads : CallGet(t)
    \/ \E t \in Threads : OnceRun(t)
    \/ \E t \in Threads : InitMiri(t)
    \/ \E t \in Threads : InitOpenFirst(t)
    \/ \E t \in Threads : InitPrintLines(t)
    \/ \E t \in Threads : InitOpenSecond(t)
    \/ \E t \in Threads : InitFold(t)
    \/ \E t \in Threads : OnceDone(t)
    \/ \E t \in Threads : OncePoisoned(t)
    \/ \E t \in Threads : CallGetPhysical(t)
    \/ EnvAppend
    \/ EnvTruncate
    \/ EnvRemove
    \/ EnvCreate
Spec == InitGet /\ [][Next]_vars

(***************************************************************************)
(* SpecWin: one call of get_physical() on Windows (lib.rs:93-165).         *)
(***************************************************************************)
RelationProcessorCore == 0
RelationTags == 0..3
\* size_of::<SYSTEM_LOGICAL_PROCESSOR_INFORMATION>() on 32- and 64-bit targets.
StructSizes == {24, 32}
MaxSize == MaxRecords * 32 + 1

\* lib.rs:30-83: dwNumberOfProcessors as usize
get_num_cpus_windows == nprocs

\* A size test that forgets the whole-multiple condition.
size_invalid_no_multiple(n, s) == n = 0 \/ n < s

\* lib.rs:131
size_invalid(n, s) == n = 0 \/ n < s \/ n % s # 0

\* lib.rs:156-158
phys_proc_count(b) == Cardinality({i \in DOMAIN b : b[i] = RelationProcessorCore})

\* lib.rs:160-164
count_result(n) == IF n = 0 THEN None ELSE Some(n)

\* lib.rs:95
get_num_physical_cpus_win(o) == unwrap_or_else(o, get_num_cpus_windows)

InitWin ==
    /\ wpc = "start"
    /\ needed_size = 0
    /\ struct_size \in StructSizes
    /\ nprocs \in 1..MaxCpus
    /\ reported = 0
    /\ fetch_ok = FALSE
    /\ buf = <<>>
    /\ wres = 0
    /\ IdleParse /\ IdleFile /\ IdleLoad /\ IdleGet

\* lib.rs:123-127: the size-discovery call writes the size it needs.
WinDiscover ==
    /\ wpc = "start"
    /\ \E n \in 0..MaxSize : needed_size' = n /\ reported' = n
    /\ wpc' = "sized"
    /\ UNCHANGED <<struct_size, nprocs, fetch_ok, buf, wres,
                   parseVars, fileVars, loadVars, getVars>>

\* lib.rs:131-133, 95
WinSizeInvalid ==
    /\ wpc = "sized"
    /\ size_invalid(needed_size, struct_size)
    /\ wres' = get_num_physical_cpus_win(None)
    /\ wpc' = "done"
    /\ UNCHANGED <<needed_size, struct_size, nprocs, reported, fetch_ok, buf,
                   parseVars, fileVars, loadVars, getVars>>

\* lib.rs:135-148, 95: the fetch call returns 0.
WinFetchFail ==
    /\ wpc = "sized"
    /\ ~size_invalid(needed_size, struct_size)
    /\ wres' = get_num_physical_cpus_win(None)
    /\ wpc' = "done"
    /\ UNCHANGED <<needed_size, struct_size, nprocs, reported, fetch_ok, buf,
                   parseVars, fileVars, loadVars, getVars>>

\* lib.rs:135-164, 95: the fetch call fills at most the capacity it was given
\* and writes the length it returned.
WinFetchOk ==
    /\ wpc = "sized"
    /\ ~size_invalid(needed_size, struct_size)
    /\ \E k \in 0..(needed_size \div struct_size) :
           \E b \in [1..k -> RelationTags] :
               /\ needed_size' = k * struct_size
               /\ buf' = b
               /\ wres' = get_num_physical_cpus_win(count_result(phys_proc_count(b)))
    /\ fetch_ok' = TRUE
    /\ wpc' = "done"
    /\ UNCHANGED <<struct_size, nprocs, reported, parseVars, fileVars, loadVars, getVars>>

NextWin ==
    \/ WinDiscover
    \/ WinSizeInvalid
    \/ WinFetchFail
    \/ WinFetchOk
SpecWin == InitWin /\ [][NextWin]_vars

(***************************************************************************)
(* Claims about parse_line (SpecParse)                                     *)
(***************************************************************************)
ColonPos(s) == {i \in DOMAIN s : s[i] = ":"}
NumFields(s) == Cardinality(ColonPos(s)) + 1
\* Position of the k-th colon of s (k >= 1); 0 for k = 0; Len(s) + 1 past the last.
ColonAt(s, k) ==
    IF k = 0 THEN 0
    ELSE IF k > Cardinality(ColonPos(s)) THEN Len(s) + 1
    ELSE CHOOSE i \in ColonPos(s) : Cardinality({j \in ColonPos(s) : j <= i}) = k
\* The field at 0-based index k, read off the colon positions.
FieldAt(s, k) == SubSeq(s, ColonAt(s, k) + 1, ColonAt(s, k + 1) - 1)
\* c holds "cpu" as a whole comma-delimited token.
HasCpuToken(c) ==
    \E a \in 1..(Len(c) - 2) :
        /\ SubSeq(c, a, a + 2) = cpu
        /\ (a = 1 \/ c[a - 1] = ",")
        /\ (a + 2 = Len(c) \/ c[a + 3] = ",")
Expected_parse_line(s) ==
    IF NumFields(s) < 3 THEN None
    ELSE IF FieldAt(s, 1) = <<>> THEN Some(Subsys("V2", FieldAt(s, 2)))
    ELSE IF HasCpuToken(FieldAt(s, 1)) THEN Some(Subsys("V1", FieldAt(s, 2)))
    ELSE None

\* C6: parse_line returns None for a line of fewer than 3 colon-separated
\* fields; otherwise, with c the field at index 1 and p the field at index 2,
\* a V2 record with base p when c is empty, a V1 record with base p when c
\* holds the exact comma-separated token "cpu", and None when it does not.
\* "11:cpu,cpuacct:/" gives V1 base "/", "0::/user.slice" gives V2 base
\* "/user.slice", "4:memory:/" gives None.
C6_ParseLine ==
    ppc = "parsed" =>
        /\ parsed = Expected_parse_line(line)
        /\ line = Ex_cpu_cpuacct => parsed = Some(Subsys("V1", <<"/">>))
        /\ line = Ex_user_slice =>
               parsed = Some(Subsys("V2", <<"/", "u", "s", "e", "r", ".", "s", "l", "i", "c", "e">>))
        /\ line = Ex_memory => parsed = None

\* A V1 line whose controller list has cpu among several tokens was parsed.
C6_Witness ==
    /\ ppc = "parsed"
    /\ line = <<":", ",", "c", "p", "u", ":">>
    /\ parsed = Some(Subsys("V1", <<>>))

(***************************************************************************)
(* Claims about load_cpu (SpecLoad)                                        *)
(***************************************************************************)
\* The record of line i of the lines read, as Option<Subsys>.
RecordOf(f, i) == IF f[i] = Err THEN None ELSE parse_line(f[i][1])
AcceptedIdx(f, v) ==
    {i \in DOMAIN f : is_some(RecordOf(f, i)) /\ RecordOf(f, i)[1].version = v}
MinOf(S) == CHOOSE i \in S : \A j \in S : i <= j
MaxOf(S) == CHOOSE i \in S : \A j \in S : j <= i

\* C7: when the membership file holds at least one accepted V1 line, the
\* record load_cpu selects has version V1, wherever the V2 lines stand.
C7_V1Precedence ==
    (lpc = "done" /\ AcceptedIdx(seen, "V1") # {}) =>
        (is_some(subsys) /\ subsys[1].version = "V1")

\* A V2 line before and a V2 line after the V1 line, and the V1 record selected.
C7_Witness ==
    /\ lpc = "done"
    /\ seen = <<Ok(LineV2u), Ok(LineV1), Ok(LineV2w)>>
    /\ subsys = Some(Subsys("V1", <<"/">>))

\* C9 as stated: load_cpu selects the first accepted V1 record if there is
\* one, otherwise the first V2 record, and None only when no line is accepted.
C9_FirstV1Wins ==
    lpc = "done" =>
        subsys = IF AcceptedIdx(seen, "V1") # {}
                 THEN RecordOf(seen, MinOf(AcceptedIdx(seen, "V1")))
                 ELSE IF AcceptedIdx(seen, "V2") # {}
                 THEN RecordOf(seen, MinOf(AcceptedIdx(seen, "V2")))
                 ELSE None

\* C9 amended: load_cpu selects the last accepted V1 record if there is one,
\* otherwise the first V2 record, and None only when no line is accepted.
C9_LastV1Wins ==
    lpc = "done" =>
        subsys = IF AcceptedIdx(seen, "V1") # {}
                 THEN RecordOf(seen, MaxOf(AcceptedIdx(seen, "V1")))
                 ELSE IF AcceptedIdx(seen, "V2") # {}
                 THEN RecordOf(seen, MinOf(AcceptedIdx(seen, "V2")))
                 ELSE None

\* Two accepted V1 lines with different bases, and the later one selected.
C9_Witness ==
    /\ lpc = "done"
    /\ seen = <<Ok(LineV1), Ok(LineV2u), Ok(LineV1a)>>
    /\ subsys = Some(Subsys("V1", <<"/", "a">>))

(***************************************************************************)
(* Claims about get() and get_physical() on Linux (Spec)                   *)
(***************************************************************************)
ReturnedFrom(t, fn) == pc[t] = "returned" /\ ret[t].fn = fn
InitPcs == {"init", "print", "reopen", "fold"}
Min(a, b) == IF a <= b THEN a ELSE b
\* ceil(q / p) for q >= 0, p > 0
CeilDiv(q, p) == (q + p - 1) \div p

\* C1: every call of get() returns an integer that is at least 1.
C1_GetAtLeastOne ==
    \A t \in Threads : ReturnedFrom(t, "get") => ret[t].val >= 1

\* C2: every call of get_physical() returns an integer that is at least 1.
C2_GetPhysicalAtLeastOne ==
    \A t \in Threads : ReturnedFrom(t, "get_physical") => ret[t].val >= 1

\* C3: under a quota q > 0 with period p, get() returns
\* min(ceil(q / p), logical processors of the host); under the unlimited
\* sentinel, or a budget of 0, it returns the host's logical processor count.
C3_QuotaBudget ==
    \A t \in Threads :
        ReturnedFrom(t, "get") =>
            ret[t].val = IF quota > 0 /\ CeilDiv(quota, period) > 0
                         THEN Min(CeilDiv(quota, period), hw)
                         ELSE hw

\* C4: a missing or unreadable membership file, or an unreadable line of it,
\* never makes a call panic: get() still returns a value.
C4_NeverPanics ==
    \A t \in Threads : pc[t] # "panicked"

\* C5: for any number of threads calling get() in any interleaving, the
\* initializer init_cgroups runs at most once, and no get() returns before
\* that one run has finished.
C5_InitOnce ==
    /\ initStarted <= 1
    /\ \A t \in Threads :
           ReturnedFrom(t, "get") => (initFinished = 1 /\ once = "COMPLETE")

\* Every thread has returned from get(), one of them having run the
\* initializer and the others having found the guard complete.
C5_Witness ==
    /\ \A t \in Threads : ReturnedFrom(t, "get")
    /\ initStarted = 1
    /\ initFinished = 1
    /\ initializer = 1
    /\ ~miri

CoreRecords == {i \in DOMAIN buf : buf[i] = 0}

\* C8: get_physical() returns the raw logical count when the size-discovery
\* call reports a size that is zero, smaller than one record or not a whole
\* multiple of the record size, when the fetch call fails, or when no
\* returned record is tagged as a physical core; in every other case it
\* returns the number of records tagged as a physical core.
C8_WindowsPhysical ==
    wpc = "done" =>
        wres = IF \/ reported = 0
                  \/ reported < struct_size
                  \/ reported % struct_size # 0
                  \/ ~fetch_ok
                  \/ CoreRecords = {}
               THEN nprocs
               ELSE Cardinality(CoreRecords)

\* Two records fetched, one of them a physical core, on a host of two
\* logical processors: the result is the core count, not the fallback.
C8_Witness ==
    /\ wpc = "done"
    /\ fetch_ok
    /\ reported = 2 * struct_size
    /\ buf = <<2, 0>>
    /\ nprocs = 2
    /\ wres = 1

====
